---- MODULE Spec2Model ----
(***************************************************************************)
(* Model of the melnet client (src/src/client.rs): the public `request`    *)
(* with its 60 s deadline, the retry loop of Client::request, and one      *)
(* network attempt of Client::request_inner (global semaphore, DashMap of  *)
(* per-destination TcpPool entries, lease, framed write/read, response     *)
(* classification, replenish).                                             *)
(*                                                                         *)
(* A step of the model is the code that one task runs between two await    *)
(* points.  The calls in progress are a bag of records, one record per     *)
(* call (calls carry no identity of their own).  Durations are in tenths   *)
(* of a second.                                                            *)
(***************************************************************************)
EXTENDS Integers, Sequences, FiniteSets, Bags, TLC

\* ---- bounds of the model ------------------------------------------------
NumCalls == 2          \* logical calls made during one run

\* ---- program constants --------------------------------------------------
GLOBAL_LIMIT == 128    \* Semaphore::new(128)
POOL_SIZE == 32        \* TcpPool::new(32, ..)
RETRIES == 5           \* for count in 0..5

Dests == {"d1", "d2"}
NoAddr == "none"
NoConn == 0
NoEntry == 0
NoResult == "pending"
\* Names for the connections that are alive (idle or leased); a call owns at
\* most one and leaves at most one idle, so NumCalls names are enough.
ConnIds == 1..NumCalls

\* Results of request_inner / request (MelnetError variants and Ok).
Results == {"Ok", "Network.Io", "Network.InvalidData", "Network.TimedOut",
            "VerbNotFound", "Custom.stdcode", "Custom.app"}

\* MelnetError::Network(_), the pattern of the retry arm.
IsNetwork(r) == r \in {"Network.Io", "Network.InvalidData", "Network.TimedOut"}

\* What read_len_bts + stdcode::deserialize::<RawResponse> can produce:
\* an I/O error, bytes that are no RawResponse, or a RawResponse whose
\* kind is "Ok", "NoVerb" or any other string.  The body of an "Ok"
\* envelope does or does not decode as TOutput; the body of an envelope of
\* another kind is "hi" or "h" followed by the byte 0xFF, which is valid
\* nowhere in UTF-8 (the "NoVerb" arm does not look at the body).
Kinds == {"Ok", "NoVerb", "Err", "ok", ""}
Bodies == {<<104, 105>>, <<104, 255>>}
ReadOutcomes ==
    {[io |-> FALSE, envelope |-> FALSE, kind |-> "Ok", body |-> FALSE,
      bytes |-> << >>],
     [io |-> TRUE, envelope |-> FALSE, kind |-> "Ok", body |-> FALSE,
      bytes |-> << >>],
     [io |-> TRUE, envelope |-> TRUE, kind |-> "NoVerb", body |-> FALSE,
      bytes |-> <<104, 105>>]}
    \cup {[io |-> TRUE, envelope |-> TRUE, kind |-> "Ok", body |-> b,
           bytes |-> <<104, 105>>] : b \in BOOLEAN}
    \cup {[io |-> TRUE, envelope |-> TRUE, kind |-> k, body |-> FALSE,
           bytes |-> y] : k \in Kinds \ {"Ok", "NoVerb"}, y \in Bodies}

VARIABLES
    calls,      \* the calls made so far, a bag of records with the fields
                \*   pc        where the call is suspended, or "done"
                \*   addr      its destination
                \*   count     loop variable of Client::request (RETRIES on
                \*             the attempt after the loop)
                \*   guard     the attempt holds a semaphore guard (_guard)
                \*   poolRef   the Arc<TcpPool> the attempt cloned
                \*   conn      the connection the attempt owns
                \*   inner     what its latest finished request_inner returned
                \*   result    what the public request returned
                \*   msg       the String of a MelnetError::Custom result
                \*   cut       where it was suspended when the deadline fired
                \*   attempts  request_inner invocations it started
                \*   waits     backoff timers it armed, in order
                \*   returned  replenish calls it made
    permits,    \* free permits of GLOBAL_LIMIT
    pool,       \* Client.pool: destination -> entry identity
    made,       \* entries constructed per destination (TcpPool::new calls)
    tcp,        \* state of each destination's TcpPool
    bgHeld,     \* untracked attempts holding a permit and no connection
    bgLeased    \* untracked attempts holding a permit and a connection of d

vars == <<calls, permits, pool, made, tcp, bgHeld, bgLeased>>
bgVars == <<bgHeld, bgLeased>>

\* The calls made so far, and how many of them satisfy Test.
Calls == BagToSet(calls)
NumWhere(Test(_)) ==
    LET S == {r \in Calls : Test(r)}
    IN BagCardinality([r \in S |-> calls[r]])

\* ---- pure parts of the code ----------------------------------------------

\* A linear backoff in place of the exponential one.
BackoffLinear(cnt) == cnt + 1

\* Duration::from_secs_f64(0.1 * 2.0f64.powi(count)), in tenths of a second.
Backoff(cnt) == 2 ^ cnt

\* Slips of the retry condition: one retry too many, retrying after the
\* attempt that follows the loop, retrying every error.
ShouldRetryOnceMore(res, cnt) == IsNetwork(res) /\ cnt < RETRIES + 1
ShouldRetryForever(res, cnt) == IsNetwork(res)
ShouldRetryAnyError(res, cnt) == res # "Ok" /\ cnt < RETRIES

\* The match of Client::request inside the loop: the Network arm sleeps and
\* loops, every other value returns.  The attempt after the loop (count =
\* RETRIES) returns whatever request_inner gave.
ShouldRetry(res, cnt) == IsNetwork(res) /\ cnt < RETRIES

\* Slips of the classification: a body that does not decode taken for a
\* transport error, a frame that is no envelope taken for a terminal error,
\* a kind that is neither "Ok", "NoVerb" nor "Err" rejected.
ClassifyBodyAsNetwork(o) ==
    IF ~o.io THEN "Network.Io"
    ELSE IF ~o.envelope THEN "Network.InvalidData"
    ELSE IF o.kind = "Ok" THEN (IF o.body THEN "Ok" ELSE "Network.InvalidData")
    ELSE IF o.kind = "NoVerb" THEN "VerbNotFound"
    ELSE "Custom.app"
ClassifyEnvelopeAsTerminal(o) ==
    IF ~o.io THEN "Network.Io"
    ELSE IF ~o.envelope THEN "Custom.stdcode"
    ELSE IF o.kind = "Ok" THEN (IF o.body THEN "Ok" ELSE "Custom.stdcode")
    ELSE IF o.kind = "NoVerb" THEN "VerbNotFound"
    ELSE "Custom.app"
ClassifyKnownKinds(o) ==
    IF ~o.io THEN "Network.Io"
    ELSE IF ~o.envelope THEN "Network.InvalidData"
    ELSE IF o.kind = "Ok" THEN (IF o.body THEN "Ok" ELSE "Custom.stdcode")
    ELSE IF o.kind = "NoVerb" THEN "VerbNotFound"
    ELSE IF o.kind = "Err" THEN "Custom.app"
    ELSE "Network.InvalidData"

\* Lines 102-115: the envelope decode and the match on response.kind.
Classify(o) ==
    IF ~o.io THEN "Network.Io"
    ELSE IF ~o.envelope THEN "Network.InvalidData"
    ELSE IF o.kind = "Ok" THEN (IF o.body THEN "Ok" ELSE "Custom.stdcode")
    ELSE IF o.kind = "NoVerb" THEN "VerbNotFound"
    ELSE "Custom.app"

\* String::from_utf8_lossy(&response.body).to_string(), as code points: a
\* byte below 0x80 is its own character, and the byte 0xFF, an invalid
\* sequence wherever it stands, becomes U+FFFD.  (Multi-byte sequences are
\* not among Bodies.)
REPLACEMENT_CHARACTER == 65533
FromUtf8Lossy(b) ==
    [i \in 1..Len(b) |-> IF b[i] < 128 THEN b[i] ELSE REPLACEMENT_CHARACTER]

\* "stdcode error".to_owned(), as code points.
StdcodeError == <<115, 116, 100, 99, 111, 100, 101, 32, 101, 114, 114, 111, 114>>

\* The String inside MelnetError::Custom (lines 108 and 111-113); none for
\* the other results.
NoMsg == << >>
ErrorMessage(o) ==
    IF Classify(o) = "Custom.stdcode" THEN StdcodeError
    ELSE IF Classify(o) = "Custom.app" THEN FromUtf8Lossy(o.bytes)
    ELSE NoMsg

\* replenish on every path that read a frame.
ReplenishesAlways(res) == TRUE

\* Line 126 is reached only on the Ok path.
Replenishes(res) == res = "Ok"

\* An acquire that does not wait for a permit.
CanAcquireAlways(p) == TRUE

\* Semaphore::acquire completes only when a permit is free.
CanAcquire(p) == p > 0

\* insert(addr, new) in place of entry(addr).or_insert_with(new).
Insert(cur, new) == new

\* An entry(addr) that inserts nothing.
NeverInsert(cur, new) == cur

\* DashMap::entry(addr).or_insert_with(new): keep the entry that is there.
OrInsert(cur, new) == IF cur = NoEntry THEN new ELSE cur

\* ---- TcpPool (crate::tcp_pool), from its description --------------------
\* An entry keeps its idle connections and counts the ones it has leased
\* out.  A lease takes an idle connection when there is one; otherwise it
\* opens a fresh one while fewer than the capacity are out, and waits when
\* the pool is depleted.  A leased connection that is dropped frees its
\* slot; a replenished one becomes idle again.
NewPool == [idle |-> {}, out |-> 0]
\* A pool without a capacity.
HasRoomAlways(t) == TRUE
HasRoom(t) == t.out < POOL_SIZE
CanOpen(t) == t.idle = {} /\ HasRoom(t)
\* A lease that leaves the connection among the idle ones.
LeaseKeepsIdle(t, k) == [idle |-> t.idle, out |-> t.out + 1]
Lease(t, k) == [idle |-> t.idle \ {k}, out |-> t.out + 1]
Replenish(t, k) == [idle |-> t.idle \cup {k}, out |-> t.out - 1]
Forget(t) == [idle |-> t.idle, out |-> t.out - 1]

\* ---- initial state -------------------------------------------------------
RECURSIVE Total(_, _)
Total(f, S) == IF S = {} THEN 0
               ELSE LET x == CHOOSE y \in S : TRUE IN f[x] + Total(f, S \ {x})

\* No call has been made.  held untracked attempts (of other callers, to
\* other destinations) hold a permit, and leased[d] of them hold a permit
\* and a connection of destination d, whose entry then exists.
InitWith(held, leased) ==
    /\ calls = EmptyBag
    /\ bgHeld = held
    /\ bgLeased = leased
    /\ permits = GLOBAL_LIMIT - held - Total(leased, Dests)
    /\ pool = [d \in Dests |-> IF leased[d] > 0 THEN 1 ELSE NoEntry]
    /\ made = [d \in Dests |-> IF leased[d] > 0 THEN 1 ELSE 0]
    /\ tcp = [d \in Dests |-> [idle |-> {}, out |-> leased[d]]]

\* A fresh client: no entry in the map, every permit free.
Init == InitWith(0, [d \in Dests |-> 0])

\* ---- the steps of one call -----------------------------------------------

\* Call r takes a step and becomes r2.
Step(r, r2) == calls' = (calls (-) SetToBag({r})) (+) SetToBag({r2})

\* request(addr, ..) is called: the deadline is armed, Client::request
\* enters the loop with count = 0 and request_inner awaits the semaphore.
NewCall(d) ==
    [pc |-> "acquire", addr |-> d, count |-> 0, guard |-> FALSE,
     poolRef |-> NoEntry, conn |-> NoConn, inner |-> NoResult,
     result |-> NoResult, msg |-> NoMsg, cut |-> "no", attempts |-> 1,
     waits |-> << >>, returned |-> 0]

Start(d) ==
    /\ BagCardinality(calls) < NumCalls
    /\ calls' = calls (+) SetToBag({NewCall(d)})
    /\ UNCHANGED <<permits, pool, made, tcp, bgVars>>

\* GLOBAL_LIMIT.acquire().await completes; the attempt runs on through
\* self.pool.entry(addr).or_insert_with(..).clone() and awaits
\* pool.connect().
Acquire(r) ==
    /\ r.pc = "acquire"
    /\ CanAcquire(permits)
    /\ permits' = permits - 1
    /\ LET d == r.addr
           e == OrInsert(pool[d], made[d] + 1)
       IN /\ pool' = [pool EXCEPT ![d] = e]
          /\ made' = [made EXCEPT ![d] = IF e = pool[d] THEN @ ELSE @ + 1]
          /\ Step(r, [r EXCEPT !.pc = "connect", !.guard = TRUE,
                               !.poolRef = e])
    /\ UNCHANGED <<tcp, bgVars>>

\* The call is over: its frame (addr, count, the locals of the attempt) is
\* gone and the caller has res.
Returned(r, res) ==
    [r EXCEPT !.pc = "done", !.result = res, !.addr = NoAddr, !.count = 0,
              !.attempts = 0, !.waits = << >>, !.guard = FALSE,
              !.poolRef = NoEntry, !.conn = NoConn]

\* Slips of the end of an attempt: the guard kept across the backoff wait,
\* the connection kept across the backoff wait.
AfterAttemptKeepsGuard(r, res) ==
    IF ShouldRetry(res, r.count)
    THEN [r EXCEPT !.pc = "sleep", !.inner = res,
                   !.waits = Append(@, Backoff(r.count)),
                   !.poolRef = NoEntry, !.conn = NoConn]
    ELSE [Returned(r, res) EXCEPT !.inner = res]
AfterAttemptKeepsConn(r, res) ==
    IF ShouldRetry(res, r.count)
    THEN [r EXCEPT !.pc = "sleep", !.inner = res,
                   !.waits = Append(@, Backoff(r.count)), !.guard = FALSE,
                   !.poolRef = NoEntry]
    ELSE [Returned(r, res) EXCEPT !.inner = res]

\* The end of request_inner with value res, and the match of Client::request
\* on it.  The guard and the locals are dropped; the loop either arms the
\* backoff timer or returns res to the public request, which returns it.
AfterAttempt(r, res) ==
    IF ShouldRetry(res, r.count)
    THEN [r EXCEPT !.pc = "sleep", !.inner = res,
                   !.waits = Append(@, Backoff(r.count)), !.guard = FALSE,
                   !.poolRef = NoEntry, !.conn = NoConn]
    ELSE [Returned(r, res) EXCEPT !.inner = res]

\* A dropped connection that frees a slot in every pool.
DropConnAnywhere(d) == tcp' = [x \in Dests |-> Forget(tcp[x])]

\* The connection of an attempt goes out of scope without replenish.
DropConn(d) == tcp' = [tcp EXCEPT ![d] = Forget(@)]

\* The connections that are alive, and the name a fresh one gets.
Alive == ({r.conn : r \in Calls} \ {NoConn})
             \cup UNION {tcp[d].idle : d \in Dests}
FreshConn == CHOOSE k \in ConnIds \ Alive : \A j \in ConnIds \ Alive : k <= j

\* pool.connect().await hands out an idle connection.
ConnectReuse(r, k) ==
    /\ r.pc = "connect"
    /\ k \in tcp[r.addr].idle
    /\ tcp' = [tcp EXCEPT ![r.addr] = Lease(@, k)]
    /\ Step(r, [r EXCEPT !.pc = "write", !.conn = k])
    /\ UNCHANGED <<permits, pool, made, bgVars>>

\* pool.connect().await opens a fresh connection.
ConnectOpen(r) ==
    /\ r.pc = "connect"
    /\ CanOpen(tcp[r.addr])
    /\ ConnIds \ Alive # {}
    /\ tcp' = [tcp EXCEPT ![r.addr] = Lease(@, FreshConn)]
    /\ Step(r, [r EXCEPT !.pc = "write", !.conn = FreshConn])
    /\ UNCHANGED <<permits, pool, made, bgVars>>

\* pool.connect().await fails to open a connection:
\* map_err(MelnetError::Network)?
ConnectFail(r) ==
    /\ r.pc = "connect"
    /\ CanOpen(tcp[r.addr])
    /\ permits' = permits + 1
    /\ Step(r, AfterAttempt(r, "Network.Io"))
    /\ UNCHANGED <<pool, made, tcp, bgVars>>

\* write_len_bts(&mut conn, &rr).await
Write(r, ok) ==
    /\ r.pc = "write"
    /\ IF ok
       THEN /\ Step(r, [r EXCEPT !.pc = "read"])
            /\ UNCHANGED <<permits, tcp>>
       ELSE /\ permits' = permits + 1
            /\ Step(r, AfterAttempt(r, "Network.Io"))
            /\ DropConn(r.addr)
    /\ UNCHANGED <<pool, made, bgVars>>

\* read_len_bts(&mut conn).await completes; lines 102-129 run to the end of
\* request_inner.
Read(r, o) ==
    /\ r.pc = "read"
    /\ permits' = permits + 1
    /\ LET res == Classify(o)
           d == r.addr
       IN IF Replenishes(res)
          THEN \* self.pool.get(&addr).unwrap().replenish(conn)
               /\ pool[d] # NoEntry
               /\ tcp' = [tcp EXCEPT ![d] = Replenish(@, r.conn)]
               /\ Step(r, [AfterAttempt(r, res) EXCEPT !.returned = @ + 1])
          ELSE /\ DropConn(d)
               /\ Step(r, [AfterAttempt(r, res) EXCEPT
                               !.msg = ErrorMessage(o)])
    /\ UNCHANGED <<pool, made, bgVars>>

\* smol::Timer::after(..).await fires: the loop takes the next count and
\* request_inner awaits the semaphore again.
Wake(r) ==
    /\ r.pc = "sleep"
    /\ Step(r, [r EXCEPT !.pc = "acquire", !.count = @ + 1,
                         !.attempts = @ + 1, !.inner = NoResult])
    /\ UNCHANGED <<permits, pool, made, tcp, bgVars>>

\* The places where Client::request can be suspended: the semaphore, the
\* lease, the framed write, the framed read, the backoff timer.
AwaitPoints == {"acquire", "connect", "write", "read", "sleep"}

\* A deadline that is looked at only between two attempts.
CancellableBetweenAttempts(p) == p \in {"acquire", "sleep"}

\* A deadline that does not cut the wait for a permit.
CancellableOncePermitted(p) == p \in {"connect", "write", "read", "sleep"}

\* A deadline whose timer also fires after the call has returned.
CancellableAlways(p) == TRUE

\* .timeout(Duration::from_secs(60)) gives None whenever its timer has
\* fired while the wrapped future is suspended.
Cancellable(p) == p \in AwaitPoints

\* A dropped future whose guard is forgotten instead of dropped.
DeadlineKeepsPermit(r) ==
    /\ Cancellable(r.pc)
    /\ Step(r, [Returned(r, "Network.TimedOut") EXCEPT
                    !.inner = NoResult, !.cut = r.pc])
    /\ IF r.conn # NoConn THEN DropConn(r.addr) ELSE UNCHANGED tcp
    /\ UNCHANGED <<permits, pool, made, bgVars>>

\* The 60 s timer of the public request fires: None is matched, the future
\* of Client::request is dropped with everything it owns (guard,
\* connection), and the caller gets Network(TimedOut) at once.
Deadline(r) ==
    /\ Cancellable(r.pc)
    /\ Step(r, [Returned(r, "Network.TimedOut") EXCEPT
                    !.inner = NoResult, !.cut = r.pc])
    /\ permits' = IF r.guard THEN permits + 1 ELSE permits
    /\ IF r.conn # NoConn THEN DropConn(r.addr) ELSE UNCHANGED tcp
    /\ UNCHANGED <<pool, made, bgVars>>

\* TcpPool drops an idle connection that stayed idle past the timeout.
Expire(d, k) ==
    /\ k \in tcp[d].idle
    /\ tcp' = [tcp EXCEPT ![d].idle = @ \ {k}]
    /\ UNCHANGED <<calls, permits, pool, made, bgVars>>

Next ==
    \/ \E d \in Dests : Start(d)
    \/ \E r \in Calls : Acquire(r)
    \/ \E r \in Calls, k \in ConnIds : ConnectReuse(r, k)
    \/ \E r \in Calls : ConnectOpen(r)
    \/ \E r \in Calls : ConnectFail(r)
    \/ \E r \in Calls, ok \in BOOLEAN : Write(r, ok)
    \/ \E r \in Calls, o \in ReadOutcomes : Read(r, o)
    \/ \E r \in Calls : Wake(r)
    \/ \E r \in Calls : Deadline(r)
    \/ \E d \in Dests, k \in ConnIds : Expire(d, k)

Spec == Init /\ [][Next]_vars

\* ---- the load of other callers ------------------------------------------
\* Attempts of calls that are not followed step by step: long-running
\* attempts that stay in flight while the followed calls run.  The model
\* keeps only how many of them hold a permit and how many hold a connection
\* of each destination.

\* Either all permits but one are taken by attempts to other destinations,
\* or every followed destination has all connections but one leased out.
Loads ==
    {[held |-> GLOBAL_LIMIT - 1, leased |-> [d \in Dests |-> 0]],
     [held |-> 0, leased |-> [d \in Dests |-> POOL_SIZE - 1]]}

InitLoad == \E l \in Loads : InitWith(l.held, l.leased)

\* The followed calls run against that load.
SpecLoad == InitLoad /\ [][Next]_vars

\* The timer of a call's deadline runs independently of the call and fires
\* after 60 s, however the call is suspended: while a call is in progress
\* the firing of a deadline cannot be put off forever.  Nothing else is
\* assumed to happen: a permit or a connection may never come, a peer may
\* never answer.
SpecLive == InitLoad /\ [][Next]_vars /\ WF_vars(\E r \in Calls : Deadline(r))

\* ---- properties ----------------------------------------------------------

\* The places where an attempt (one request_inner) is running.
AttemptPcs == {"acquire", "connect", "write", "read"}

\* The steps of calls: <<r, r2>> when call r became r2 in this step.
Moves ==
    {m \in Calls \X BagToSet(calls') :
        /\ m[1] # m[2]
        /\ calls' = (calls (-) SetToBag({m[1]})) (+) SetToBag({m[2]})}

\* In the step from r to r2 the running attempt ended with value res.
AttemptEnds(r, r2, res) == r.inner = NoResult /\ r2.inner = res

\* C1, as stated: a call starts at most 5 attempts, and a call whose
\* attempts all fail with a Network error ends after exactly 5 attempts.
C1_AtMostFiveAttempts ==
    [][/\ \A r2 \in BagToSet(calls') : r2.attempts <= 5
       /\ \A m \in Moves : \A res \in Results :
            (IsNetwork(res) /\ AttemptEnds(m[1], m[2], res)) =>
                IF m[1].attempts = 5
                THEN m[2].pc = "done" /\ m[2].result = res
                ELSE m[2].pc = "sleep"]_vars

\* C1, amended: a call starts at most 6 attempts (the 5 of the loop and the
\* one after it); an attempt that fails with a Network error is followed by
\* a backoff wait unless it is the 6th, which ends the call with that error
\* after 5 waits; there is no 7th attempt.
C1_AtMostSixAttempts ==
    [][/\ \A r2 \in BagToSet(calls') : r2.attempts <= 6
       /\ \A m \in Moves : \A res \in Results :
            (IsNetwork(res) /\ AttemptEnds(m[1], m[2], res)) =>
                IF m[1].attempts = 6
                THEN /\ m[2].pc = "done"
                     /\ m[2].result = res
                     /\ Len(m[1].waits) = 5
                ELSE m[2].pc = "sleep"]_vars

\* The sixth attempt of a call is running, after five failed ones.
C1_SixthAttemptRuns ==
    \E r \in Calls : r.attempts = 6 /\ r.pc = "read" /\ Len(r.waits) = 5

\* The waits of call r so far are the first ones of ws, one per finished
\* attempt: none before the first attempt, one more while it sleeps.
WaitsFollow(r, ws) ==
    /\ Len(r.waits) <= Len(ws)
    /\ r.waits = SubSeq(ws, 1, Len(r.waits))
    /\ r.pc \in AttemptPcs => Len(r.waits) = r.attempts - 1
    /\ r.pc = "sleep" => Len(r.waits) = r.attempts

\* C2, as stated: the waits of a call are a prefix of 0.1, 0.2, 0.4, 0.8,
\* one after each failed attempt and none before the first; at most 4 waits.
C2_WaitsUpToFour == \A r \in Calls : WaitsFollow(r, <<1, 2, 4, 8>>)

\* C2, amended: the waits of a call are a prefix of 0.1, 0.2, 0.4, 0.8, 1.6
\* (0.1 * 2^i after the failed attempt of index i in 0..4), exactly one
\* between two consecutive attempts and none before the first; at most 5.
C2_WaitsUpToFive == \A r \in Calls : WaitsFollow(r, <<1, 2, 4, 8, 16>>)

\* A call has waited 0.1, 0.2, 0.4, 0.8 and 1.6.
C2_FiveWaitsDone == \E r \in Calls : r.waits = <<1, 2, 4, 8, 16>>

\* C3: when the attempt that follows the loop (count = RETRIES) ends, with
\* whatever value, the call is over with that value as its result: no
\* backoff timer is armed and no further attempt starts.
C3_FinalAttemptDecides ==
    [][\A m \in Moves :
          (m[1].count = RETRIES /\ m[1].pc \in AttemptPcs) =>
              /\ m[2].pc \in AttemptPcs \cup {"done"}
              /\ m[2].attempts \in {m[1].attempts, 0}
              /\ m[2].waits \in {m[1].waits, << >>}
              /\ \A res \in Results :
                    AttemptEnds(m[1], m[2], res) =>
                        m[2].pc = "done" /\ m[2].result = res]_vars

\* A call is over with the transient error of its last attempt.
C3_EndedOnTransientError ==
    \E r \in Calls : r.pc = "done" /\ IsNetwork(r.inner) /\ r.result = r.inner

\* C4: an attempt that ends with VerbNotFound (kind "NoVerb") or with an
\* application error (any kind but "Ok" and "NoVerb") ends the call with that
\* error at once, whatever the count: no backoff, no further attempt.  On
\* the first attempt that is zero retries and zero backoff.
C4_TerminalNotRetried ==
    [][\A m \in Moves : \A res \in {"VerbNotFound", "Custom.app"} :
          AttemptEnds(m[1], m[2], res) =>
              /\ m[2].pc = "done"
              /\ m[2].result = res
              /\ m[2].waits = << >>
              /\ m[1].attempts = 1 => m[1].waits = << >>]_vars

\* A call is over with VerbNotFound as its result.
C4_VerbNotFoundReturned ==
    \E r \in Calls : r.pc = "done" /\ r.result = "VerbNotFound"

\* An attempt past the semaphore and not finished: leasing, writing,
\* reading or decoding.
InFlight(r) == r.pc \in {"connect", "write", "read"}

\* C5: the attempts past permit acquisition and not yet finished, of the
\* followed calls and of all others, are never more than 128.
C5_AdmissionCap ==
    NumWhere(InFlight) + bgHeld + Total(bgLeased, Dests) <= 128

\* All 128 permits are taken, one by a followed attempt, and another
\* followed call waits for a permit.
C5_CapReachedAndContended ==
    /\ NumWhere(InFlight) + bgHeld + Total(bgLeased, Dests) = 128
    /\ \E r \in Calls : InFlight(r)
    /\ \E r \in Calls : r.pc = "acquire"

\* C6: wherever a call without a result is suspended (waiting for a permit,
\* leasing, writing, reading, in a backoff wait) the deadline can fire, and
\* when it does the call is over at once with the TimedOut error, without a
\* further step of the attempt.
C6_DeadlineCutsAnywhere ==
    \A r \in Calls :
        r.pc \in {"acquire", "connect", "write", "read", "sleep"} =>
            ENABLED (/\ Deadline(r)
                     /\ \E r2 \in BagToSet(calls') :
                          /\ Step(r, r2)
                          /\ r2.pc = "done"
                          /\ r2.result = "Network.TimedOut")

\* A call timed out in the middle of the framed read.
C6_TimedOutWhileReading ==
    \E r \in Calls : r.result = "Network.TimedOut" /\ r.cut = "read"

\* C7: a call replenishes a connection exactly when one of its attempts
\* ends with Ok (kind "Ok", body decoded), once, with the connection that
\* attempt leased, into the pool of its destination; an attempt that ends
\* in any other way leaves its connection out of every pool, and nothing
\* else puts a connection into a pool.
C7_ReturnedOnlyOnSuccess ==
    [][/\ \A m \in Moves :
            LET r == m[1]
                r2 == m[2]
            IN /\ r2.returned \in {r.returned, r.returned + 1}
               /\ r2.returned <= 1
               /\ (r2.returned = r.returned + 1) <=> AttemptEnds(r, r2, "Ok")
               /\ r2.returned = r.returned + 1 =>
                      /\ r.conn # NoConn
                      /\ r.conn \notin tcp[r.addr].idle
                      /\ r.conn \in tcp'[r.addr].idle
               /\ (r.conn # NoConn /\ r2.conn = NoConn /\ r2.inner # "Ok") =>
                      \A d \in Dests : r.conn \notin tcp'[d].idle
       /\ \A d \in Dests : \A k \in tcp'[d].idle \ tcp[d].idle :
            \E m \in Moves : /\ m[1].conn = k
                             /\ m[1].addr = d
                             /\ AttemptEnds(m[1], m[2], "Ok")]_vars

\* A call succeeded and its connection is idle in the pool.
C7_ReturnedOnce ==
    \E r \in Calls : /\ r.result = "Ok"
                     /\ r.returned = 1
                     /\ \E d \in Dests : tcp[d].idle # {}

\* C8: one entry at most is ever constructed for a destination, an entry
\* that is in the map is never replaced or removed, and every attempt uses
\* the entry the map holds for its destination.
C8_OneEntryPerDestination ==
    [][\A d \in Dests :
          /\ made'[d] <= 1
          /\ pool[d] # NoEntry => pool'[d] = pool[d]
          /\ \A r2 \in BagToSet(calls') :
                (r2.poolRef # NoEntry /\ r2.addr = d) => r2.poolRef = pool'[d]]_vars

\* Two attempts to the same destination run at the same time on its one
\* entry.
C8_TwoAttemptsShareEntry ==
    \E d \in Dests :
        /\ made[d] = 1
        /\ NumWhere(LAMBDA r : r.addr = d /\ r.poolRef = pool[d]) = 2

\* C9: a connection is idle in at most one pool or leased to at most one
\* attempt, never both and never leased twice (otherwise it is discarded).
C9_IdleOrLeasedToOne ==
    \A k \in ConnIds :
        NumWhere(LAMBDA r : r.conn = k)
            + Cardinality({d \in Dests : k \in tcp[d].idle}) <= 1

\* One connection of a destination is idle in its pool while an attempt
\* holds another connection of the same destination.
C9_LeaseBesideIdle ==
    \E d \in Dests :
        /\ tcp[d].idle # {}
        /\ \E r \in Calls : r.addr = d /\ r.conn # NoConn

\* C10: the connections of a destination held by attempts, followed or
\* not, are never more than 32.
C10_PoolCapacity ==
    \A d \in Dests :
        NumWhere(LAMBDA r : r.addr = d /\ r.conn # NoConn) + bgLeased[d] <= 32

\* All 32 connections of a destination are leased out, one of them to a
\* followed attempt, and another followed attempt waits for a lease.
C10_PoolFullAndContended ==
    \E d \in Dests :
        /\ NumWhere(LAMBDA r : r.addr = d /\ r.conn # NoConn) + bgLeased[d] = 32
        /\ \E r \in Calls : r.addr = d /\ r.conn # NoConn
        /\ \E r \in Calls : r.addr = d /\ r.pc = "connect"

\* C11: when an attempt reads an envelope of kind "Ok" whose body does not
\* decode as the response type, the call ends in that step with the decode
\* error (MelnetError::Custom("stdcode error")), which is no Network error;
\* no backoff timer is armed, whatever the count.
C11_DecodeErrorTerminal ==
    [][\A r \in Calls, o \in ReadOutcomes :
          (o.io /\ o.envelope /\ o.kind = "Ok" /\ ~o.body /\ Read(r, o)) =>
              \E r2 \in BagToSet(calls') :
                  /\ Step(r, r2)
                  /\ r2.pc = "done"
                  /\ r2.result = "Custom.stdcode"
                  /\ r2.msg = StdcodeError
                  /\ ~IsNetwork(r2.result)
                  /\ r2.inner = r2.result]_vars

\* A call is over with the decode error.
C11_DecodeErrorReturned ==
    \E r \in Calls :
        r.pc = "done" /\ r.result = "Custom.stdcode" /\ r.msg = StdcodeError

\* C12: when the frame an attempt reads is no Response Envelope, the
\* attempt ends with a Network error (InvalidData); inside the loop the
\* backoff timer of that count is armed and the call goes on, and on the
\* attempt after the loop the call ends with that Network error.
C12_EnvelopeErrorRetried ==
    [][\A r \in Calls, o \in ReadOutcomes :
          (o.io /\ ~o.envelope /\ Read(r, o)) =>
              \E r2 \in BagToSet(calls') :
                  /\ Step(r, r2)
                  /\ r2.inner = "Network.InvalidData"
                  /\ IsNetwork(r2.inner)
                  /\ IF r.count < RETRIES
                     THEN /\ r2.pc = "sleep"
                          /\ r2.result = NoResult
                          /\ r2.waits = Append(r.waits, 2 ^ r.count)
                     ELSE /\ r2.pc = "done"
                          /\ r2.result = r2.inner]_vars

\* A call waits for its next attempt after a frame that was no envelope.
C12_SleepsAfterBadEnvelope ==
    \E r \in Calls : r.pc = "sleep" /\ r.inner = "Network.InvalidData"

\* The bytes of a String given by its code points (ASCII and U+FFFD).
RECURSIVE Utf8(_)
Utf8(str) ==
    IF str = << >> THEN << >>
    ELSE (IF Head(str) < 128 THEN <<Head(str)>> ELSE <<239, 191, 189>>)
             \o Utf8(Tail(str))

\* What the match on the kind of a decoded envelope o gives.
KindResult(o) ==
    IF o.kind = "Ok" THEN (IF o.body THEN "Ok" ELSE "Custom.stdcode")
    ELSE IF o.kind = "NoVerb" THEN "VerbNotFound"
    ELSE "Custom.app"

\* C13, as stated: for every decoded envelope the attempt ends with the
\* value of its kind ("Ok": the value or the decode error; "NoVerb":
\* VerbNotFound; any other string: the application error), never with a
\* Network error, and the application error carries the body as its message.
C13_TotalAndVerbatim ==
    [][\A r \in Calls, o \in ReadOutcomes :
          (o.io /\ o.envelope /\ Read(r, o)) =>
              \E r2 \in BagToSet(calls') :
                  /\ Step(r, r2)
                  /\ r2.inner = KindResult(o)
                  /\ ~IsNetwork(r2.inner)
                  /\ r2.inner = "Custom.app" => Utf8(r2.msg) = o.bytes]_vars

\* C13, amended: the same, but the message of the application error is the
\* body read as UTF-8 with every invalid byte replaced by U+FFFD; it is the
\* body itself when the body is valid UTF-8.
C13_TotalAndLossy ==
    [][\A r \in Calls, o \in ReadOutcomes :
          (o.io /\ o.envelope /\ Read(r, o)) =>
              \E r2 \in BagToSet(calls') :
                  /\ Step(r, r2)
                  /\ r2.inner = KindResult(o)
                  /\ ~IsNetwork(r2.inner)
                  /\ r2.inner = "Custom.app" =>
                        /\ Len(r2.msg) = Len(o.bytes)
                        /\ \A i \in 1..Len(o.bytes) :
                              \/ o.bytes[i] < 128 /\ r2.msg[i] = o.bytes[i]
                              \/ o.bytes[i] >= 128 /\ r2.msg[i] = 65533
                        /\ (\A i \in 1..Len(o.bytes) : o.bytes[i] < 128) =>
                              Utf8(r2.msg) = o.bytes]_vars

\* A call is over with an application error whose message holds U+FFFD in
\* the place of the invalid byte of the body.
C13_LossyMessageReturned ==
    \E r \in Calls :
        r.pc = "done" /\ r.result = "Custom.app" /\ r.msg = <<104, 65533>>

\* A frame that holds an envelope of kind "Ok" whose body decodes.
GoodFrame ==
    [io |-> TRUE, envelope |-> TRUE, kind |-> "Ok", body |-> TRUE,
     bytes |-> <<104, 105>>]

\* Call r can take the next step of its attempt.
CanProceed(r) ==
    /\ r.pc = "acquire" => ENABLED Acquire(r)
    /\ r.pc = "connect" =>
          ENABLED (ConnectOpen(r) \/ \E k \in ConnIds : ConnectReuse(r, k))
    /\ r.pc = "write" => ENABLED Write(r, TRUE)
    /\ r.pc = "read" => ENABLED Read(r, GoodFrame)

\* C14: a step of a call to destination D (an attempt starting, failing,
\* succeeding, or abandoned at the deadline) leaves the entry and the pool of
\* every other destination as they are; and in every state, whatever has
\* failed before, every call in progress can take the next step of its
\* attempt up to a successful end.
C14_OtherDestinationsUntouched ==
    [][/\ \A m \in Moves :
            m[1].addr # NoAddr =>
                \A d \in Dests \ {m[1].addr} :
                    /\ pool'[d] = pool[d]
                    /\ made'[d] = made[d]
                    /\ tcp'[d] = tcp[d]
       /\ \A r \in Calls : CanProceed(r)]_vars

\* A call has failed five times to its destination while a call to another
\* destination succeeded and left its connection in that destination's pool.
C14_FailuresBesideSuccess ==
    \E r \in Calls :
        /\ r.pc = "sleep"
        /\ r.count = RETRIES - 1
        /\ \E d \in Dests \ {r.addr} : tcp[d].idle # {} /\ pool[d] # NoEntry
        /\ \E q \in Calls : q.result = "Ok"

\* C15: a call holds a guard exactly while one of its attempts is past the
\* semaphore and not ended (leasing, writing, reading, decoding); the guard
\* is taken, one permit, before the entry is looked up and the connection
\* leased, and given back, one permit, in the step that ends the attempt,
\* with success or failure; during the backoff wait the call holds none, and
\* the next attempt starts by waiting for a permit again.
C15_PermitPerAttempt ==
    [][/\ \A r2 \in BagToSet(calls') :
            /\ r2.guard <=> r2.pc \in {"connect", "write", "read"}
            /\ r2.poolRef # NoEntry => r2.guard
            /\ r2.conn # NoConn => r2.guard
            /\ r2.pc = "sleep" => ~r2.guard
       /\ \A m \in Moves :
            LET r == m[1]
                r2 == m[2]
            IN /\ (~r.guard /\ r2.guard) =>
                      /\ r.pc = "acquire"
                      /\ permits > 0
                      /\ permits' = permits - 1
                      /\ r.poolRef = NoEntry /\ r.conn = NoConn
               /\ (r.guard /\ ~r2.guard) =>
                      /\ permits' = permits + 1
                      /\ r2.pc \in {"sleep", "done"}
               /\ (r.guard <=> r2.guard) => permits' = permits
               /\ r.pc = "sleep" /\ r2.pc # "done" =>
                      r2.pc = "acquire" /\ ~r2.guard]_vars

\* A second attempt holds a permit of its own while another call, in its
\* backoff wait, holds none.
C15_RetryHoldsFreshPermit ==
    /\ \E r \in Calls : r.count >= 1 /\ r.guard
    /\ \E q \in Calls : q.pc = "sleep"
    /\ permits = GLOBAL_LIMIT - 1

\* C16: with a deadline timer that fires, every call made comes to its end
\* (again and again every call made so far has returned), also when its
\* attempt waits for a permit or for a connection that never comes.
C16_EveryCallEnds == []<>(\A r \in Calls : r.pc = "done")

\* A call was ended by the deadline while it waited for a permit, and no
\* permit is free.
C16_EndedWaitingForPermit ==
    \E r \in Calls :
        r.result = "Network.TimedOut" /\ r.cut = "acquire" /\ permits = 0

\* C17: a call that has returned takes no further step (its record never
\* changes again), and while every call made has returned no permit is taken
\* and no connection enters a pool; the step in which the deadline abandons
\* an attempt that holds a connection does not replenish it.
C17_NothingAfterReturn ==
    [][/\ \A m \in Moves : m[1].pc # "done"
       /\ \A r \in Calls :
            r.pc = "done" => CopiesIn(r, calls') >= CopiesIn(r, calls)
       /\ (\A r \in Calls : r.pc = "done") =>
            /\ permits' = permits
            /\ \A d \in Dests : /\ tcp'[d].idle \subseteq tcp[d].idle
                                /\ tcp'[d].out = tcp[d].out
       /\ \A m \in Moves :
            (m[2].result = "Network.TimedOut" /\ m[1].conn # NoConn) =>
                /\ m[2].returned = m[1].returned
                /\ \A d \in Dests : m[1].conn \notin tcp'[d].idle]_vars

\* A call timed out while writing, and its connection is in no pool.
C17_AbandonedConnectionGone ==
    /\ \E r \in Calls :
          r.result = "Network.TimedOut" /\ r.cut = "write" /\ r.returned = 0
    /\ \A q \in Calls : q.pc = "done"
    /\ \A d \in Dests : tcp[d].idle = {} /\ tcp[d].out = 0

\* C18: the permits taken are as many as the attempts between permit
\* acquisition and attempt end (those of the followed calls hold a guard),
\* also after attempts were abandoned by the deadline; so with no attempt in
\* progress all 128 permits are free.
C18_NoPermitLeak ==
    /\ GLOBAL_LIMIT - permits =
          NumWhere(InFlight) + bgHeld + Total(bgLeased, Dests)
    /\ NumWhere(InFlight) = NumWhere(LAMBDA r : r.guard)
    /\ (NumWhere(InFlight) + bgHeld + Total(bgLeased, Dests) = 0) =>
          permits = 128

\* A call was abandoned by the deadline while its attempt held a permit, and
\* all permits are free again.
C18_AbandonedPermitBack ==
    /\ \E r \in Calls :
          r.result = "Network.TimedOut" /\ r.cut \in {"connect", "write", "read"}
    /\ NumWhere(InFlight) = 0
    /\ permits = 128

\* C19: from the lookup of the entry to the end of the attempt, the map
\* holds an entry for the attempt's destination and it is the one the
\* attempt cloned and leased from; so the lookup of the return step finds
\* it: an attempt that reads a good frame can take that step.
C19_EntryThereAtReturn ==
    \A r \in Calls :
        r.pc \in {"connect", "write", "read"} =>
            /\ pool[r.addr] # NoEntry
            /\ r.poolRef = pool[r.addr]
            /\ r.pc = "read" => ENABLED Read(r, GoodFrame)

\* A call has returned its connection to the entry of a destination while
\* an attempt of another call runs on the same entry.
C19_ReturnBesideAttempt ==
    /\ \E r \in Calls : r.returned = 1
    /\ \E d \in Dests :
          /\ made[d] = 1
          /\ tcp[d].idle # {}
          /\ \E q \in Calls : /\ q.addr = d
                              /\ q.pc \in {"connect", "write", "read"}
                              /\ q.poolRef = pool[d]

\* C20: an attempt that owns a connection holds a guard, so the connections
\* owned by attempts, followed or not, over all destinations, are never
\* more than the permits taken, which are never more than 128.
C20_ConnectionsWithinPermits ==
    /\ \A r \in Calls : r.conn # NoConn => r.guard
    /\ NumWhere(LAMBDA r : r.conn # NoConn) + Total(bgLeased, Dests)
          <= GLOBAL_LIMIT - permits
    /\ GLOBAL_LIMIT - permits <= 128
    /\ NumWhere(LAMBDA r : r.conn # NoConn) + Total(bgLeased, Dests) <= 128

\* Every permit taken is taken by an attempt that owns a connection, some of
\* them followed.
C20_EveryPermitHasConnection ==
    /\ NumWhere(LAMBDA r : r.conn # NoConn) >= 1
    /\ Total(bgLeased, Dests) >= 1
    /\ NumWhere(LAMBDA r : r.conn # NoConn) + Total(bgLeased, Dests)
          = GLOBAL_LIMIT - permits

TypeOK ==
    /\ \A r \in Calls :
          /\ r.pc \in AwaitPoints \cup {"done"}
          /\ r.count \in 0..RETRIES
          /\ r.result \in Results \cup {NoResult}
    /\ permits \in 0..GLOBAL_LIMIT

====
